---- MODULE Spec2Model ----
(***************************************************************************)
(* A model of treesaver.dimensions (src/lib/dimensions.js): the pixel      *)
(* conversion helper, the Metrics snapshot and its clone, the size-range   *)
(* containment test and the size-range merge.                              *)
(*                                                                         *)
(* JavaScript values are tagged records [t, n, s]; a JavaScript string is  *)
(* a sequence of one-character strings, so that the pixel regular          *)
(* expression and parseFloat are computed character by character.  A       *)
(* JavaScript object is a function from its own field names to values.     *)
(***************************************************************************)
EXTENDS Integers, Sequences, FiniteSets, TLC

VARIABLES
    legacy,   \* the MSIE patch of lines 108-136 is installed
    el,       \* the element: style sheet values, inline style, rendered box
    writes,   \* number of setCssPx writes made to el
    metrics,  \* the Metrics object the caller holds, or Undefined
    copy,     \* the object returned by metrics.clone(), or Undefined
    call,     \* the latest call: the function's name and its arguments
    ret       \* what the latest call returned

vars == <<legacy, el, writes, metrics, copy, call, ret>>

-----------------------------------------------------------------------------
(* Bounds of the model.                                                    *)

MaxLen == 3      \* longest string of Chars handed to toPixels
MaxDim == 2      \* largest width/height/minimum/maximum of a size or range
MaxBase == 3     \* largest base handed to roundUp
MaxNumber == 7   \* largest |number| handed to roundUp, in 1/Scale units
Scale == 2       \* roundUp's number is a multiple of 1/Scale
MaxWrites == 1   \* setCssPx writes to the element
MaxAssign == 1   \* assignments to a field of a Metrics object or its clone

-----------------------------------------------------------------------------
(* JavaScript values.                                                      *)

Undefined == [t |-> "undefined", n |-> 0, s |-> <<>>]
Null == [t |-> "null", n |-> 0, s |-> <<>>]
NaN == [t |-> "NaN", n |-> 0, s |-> <<>>]
Infinity == [t |-> "Infinity", n |-> 0, s |-> <<>>]
NegInfinity == [t |-> "-Infinity", n |-> 0, s |-> <<>>]
Num(i) == [t |-> "number", n |-> i, s |-> <<>>]
Str(chars) == [t |-> "string", n |-> 0, s |-> chars]
True == [t |-> "boolean", n |-> 1, s |-> <<>>]
False == [t |-> "boolean", n |-> 0, s |-> <<>>]
Bool(b) == IF b THEN True ELSE False

EmptyObject == [k \in {} |-> Undefined]

IsPrimitive(v) ==
    DOMAIN v = {"t", "n", "s"}

\* ToBoolean: undefined, null, NaN, 0, "" and false are falsy; an object
\* (here: anything that is not a tagged primitive) is truthy.
Truthy(v) ==
    IF ~IsPrimitive(v) THEN TRUE
    ELSE CASE v.t = "undefined" -> FALSE
           [] v.t = "null" -> FALSE
           [] v.t = "NaN" -> FALSE
           [] v.t = "number" -> v.n # 0
           [] v.t = "boolean" -> v.n # 0
           [] v.t = "string" -> v.s # <<>>
           [] OTHER -> TRUE

\* a || b
Or(a, b) == IF Truthy(a) THEN a ELSE b

\* obj[key]: an absent property reads as undefined.
Get(obj, key) == IF key \in DOMAIN obj THEN obj[key] ELSE Undefined

\* obj[key] = v
Put(obj, key, v) ==
    [k \in DOMAIN obj \cup {key} |-> IF k = key THEN v ELSE obj[k]]

\* ToNumber on the values that reach arithmetic here (no strings, no objects).
ToNumber(v) ==
    CASE v.t = "undefined" -> NaN
      [] v.t = "null" -> Num(0)
      [] v.t = "boolean" -> Num(v.n)
      [] OTHER -> v

IsInf(v) == v.t \in {"Infinity", "-Infinity"}

Neg(v) ==
    CASE v.t = "number" -> Num(-v.n)
      [] v.t = "Infinity" -> NegInfinity
      [] v.t = "-Infinity" -> Infinity
      [] OTHER -> v

\* a + b on numbers
AddNum(x, y) ==
    CASE x.t = "NaN" \/ y.t = "NaN" -> NaN
      [] IsInf(x) /\ IsInf(y) -> IF x = y THEN x ELSE NaN
      [] IsInf(x) -> x
      [] IsInf(y) -> y
      [] OTHER -> Num(x.n + y.n)

Add(a, b) == AddNum(ToNumber(a), ToNumber(b))
Sub(a, b) == AddNum(ToNumber(a), Neg(ToNumber(b)))

\* x <= y on numbers; any comparison with NaN is false.
LeNum(x, y) ==
    CASE x.t = "NaN" \/ y.t = "NaN" -> FALSE
      [] x.t = "-Infinity" \/ y.t = "Infinity" -> TRUE
      [] x.t = "Infinity" \/ y.t = "-Infinity" -> FALSE
      [] OTHER -> x.n <= y.n

Le(a, b) == LeNum(ToNumber(a), ToNumber(b))
Ge(a, b) == LeNum(ToNumber(b), ToNumber(a))

MathMax(a, b) ==
    LET x == ToNumber(a)
        y == ToNumber(b)
    IN  IF x.t = "NaN" \/ y.t = "NaN" THEN NaN
        ELSE IF LeNum(x, y) THEN y ELSE x

MathMin(a, b) ==
    LET x == ToNumber(a)
        y == ToNumber(b)
    IN  IF x.t = "NaN" \/ y.t = "NaN" THEN NaN
        ELSE IF LeNum(x, y) THEN x ELSE y

-----------------------------------------------------------------------------
(* Strings, the two regular expressions and parseFloat.                    *)

Digits == {"0", "1", "2", "3", "4", "5", "6", "7", "8", "9"}

DigitValue(c) ==
    CASE c = "0" -> 0 [] c = "1" -> 1 [] c = "2" -> 2 [] c = "3" -> 3
      [] c = "4" -> 4 [] c = "5" -> 5 [] c = "6" -> 6 [] c = "7" -> 7
      [] c = "8" -> 8 [] c = "9" -> 9

DigitChar(d) ==
    CASE d = 0 -> "0" [] d = 1 -> "1" [] d = 2 -> "2" [] d = 3 -> "3"
      [] d = 4 -> "4" [] d = 5 -> "5" [] d = 6 -> "6" [] d = 7 -> "7"
      [] d = 8 -> "8" [] d = 9 -> "9"

\* The number of digits of s from position i on (the greedy match of \d+).
RECURSIVE DigitRun(_, _)
DigitRun(s, i) ==
    IF i <= Len(s) /\ s[i] \in Digits THEN 1 + DigitRun(s, i + 1) ELSE 0

\* Where the match continues after the optional leading minus sign (-?).
AfterSign(s) == IF Len(s) >= 1 /\ s[1] = "-" THEN 2 ELSE 1

\* pixel without its end anchor: /^-?\d+/i
pixel_AcceptsAnySuffix(s) ==
    DigitRun(s, AfterSign(s)) >= 1

\* /^-?\d+(?:px)?$/i .test(s)
pixel(s) ==
    LET i == AfterSign(s)
        k == DigitRun(s, i)
        j == i + k
    IN  /\ k >= 1
        /\ \/ j = Len(s) + 1
           \/ /\ j + 1 = Len(s)
              /\ s[j] \in {"p", "P"}
              /\ s[j + 1] \in {"x", "X"}

\* /^-?\d/ .test(s)
number(s) ==
    LET i == AfterSign(s)
    IN  i <= Len(s) /\ s[i] \in Digits

\* The value of the digits s[i..j-1], read left to right.
RECURSIVE DecimalValue(_, _, _, _)
DecimalValue(s, i, j, acc) ==
    IF i >= j THEN acc
    ELSE DecimalValue(s, i + 1, j, 10 * acc + DigitValue(s[i]))

\* parseFloat(s) for a string that begins with an optional minus sign and a
\* digit run followed by neither "." nor an exponent: the sign and the digit
\* run are the decimal literal it reads, whatever follows is ignored.  Every
\* string the pixel expression accepts is of this form; -0 is kept as 0.
parseFloat(s) ==
    LET i == AfterSign(s)
        k == DigitRun(s, i)
        v == DecimalValue(s, i, i + k, 0)
    IN  IF k = 0 THEN NaN
        ELSE IF i = 2 THEN Num(-v) ELSE Num(v)

\* String(n) of a non-negative integer, and of any integer.
RECURSIVE NatToString(_)
NatToString(m) ==
    IF m < 10 THEN <<DigitChar(m)>>
    ELSE Append(NatToString(m \div 10), DigitChar(m % 10))

NumberToString(i) ==
    IF i < 0 THEN <<"-">> \o NatToString(-i) ELSE NatToString(i)

-----------------------------------------------------------------------------
(* toPixels.                                                              *)

\* Whether toPixels takes the branch of lines 124-133, which asks the host:
\* only the MSIE patch has it.
AsksHost(val) ==
    /\ legacy
    /\ Truthy(val)
    /\ ~pixel(val.s)
    /\ number(val.s)

\* toPixels(el, val).  val is a string, undefined or null.  pixelLeft is what
\* the host reports as el.style.pixelLeft after line 128 assigned val to
\* el.style.left; lines 125-131 save and restore el.style.left and
\* el.runtimeStyle.left, so the element is as before when the call returns.
toPixels(e, val, pixelLeft) ==
    IF Truthy(val) /\ pixel(val.s) THEN parseFloat(val.s)
    ELSE IF AsksHost(val) THEN Num(pixelLeft)
    ELSE Null

-----------------------------------------------------------------------------
(* roundUp, on numbers that are multiples of 1/Scale, held as integers in  *)
(* units of 1/Scale.                                                       *)

\* Math.ceil(q / Scale), in units of 1/Scale
MathCeil(q) == ((q + Scale - 1) \div Scale) * Scale

\* q % b of JavaScript: the remainder takes the sign of the dividend.
Rem(q, b) == IF q >= 0 THEN q % b ELSE -((-q) % b)

\* roundUp that keeps a number that is a multiple of the base already.
roundUp_NoOvershoot(q, b) ==
    IF Rem(q, b) = 0 THEN MathCeil(q) ELSE MathCeil(q) + b - Rem(q, b)

roundUp(q, b) == MathCeil(q) + b - Rem(q, b)

-----------------------------------------------------------------------------
(* The element and its host.                                               *)

BoxProps ==
    {"marginTop", "marginBottom", "marginLeft", "marginRight",
     "borderTopWidth", "borderBottomWidth", "borderLeftWidth",
     "borderRightWidth",
     "paddingTop", "paddingBottom", "paddingLeft", "paddingRight"}

LengthProps ==
    BoxProps \cup {"minWidth", "minHeight", "maxWidth", "maxHeight",
                   "lineHeight"}

StyleProps == LengthProps \cup {"display", "position"}

\* The style object of the element: document.defaultView.getComputedStyle(el)
\* or, with the MSIE patch, el.currentStyle.  The host gives an inline
\* declaration (el.style, written by setCssPx) precedence over the sheet.
getStyleObject(e) ==
    [p \in StyleProps |->
        IF p \in DOMAIN e.inline THEN e.inline[p] ELSE e.sheet[p]]

\* setCssPx(el, propName, val): the element after el.style[propName] = val + 'px'
setCssPx(e, propName, val) ==
    [e EXCEPT !.inline = Put(e.inline, propName,
                             Str(NumberToString(val) \o <<"p", "x">>))]

-----------------------------------------------------------------------------
(* Metrics.                                                                *)

\* What a function-valued property holds.
Function(name) == [t |-> "function", n |-> 0, s |-> <<name>>]

\* treesaver.dimensions.Metrics.prototype: clone, and toString in a debug
\* build.  Both are enumerable.
Prototype ==
    [clone |-> Function("clone"), toString |-> Function("toString")]

\* new treesaver.dimensions.Metrics(): no own field.
EmptyMetrics == EmptyObject

\* MaxOf that tests tmp against null instead of its truth.
MaxOf_KeepsZero(tmp) ==
    IF tmp.t = "null" \/ tmp = Num(-1) THEN Infinity ELSE tmp

\* The maximum kept from toPixels' answer tmp (lines 237 and 240).
MaxOf(tmp) ==
    IF ~Truthy(tmp) \/ tmp = Num(-1) THEN Infinity ELSE tmp

\* SideOf without the default.
SideOf_KeepsNull(px) == px

\* The box-model side kept from toPixels' answer (lines 195-213, 232-233).
SideOf(px) == Or(px, Num(0))

\* BpWidthOf that adds the left side twice.
BpWidthOf_LeftTwice(bpLeft, bpRight) == Add(bpLeft, bpLeft)

\* this.bpWidth (line 221)
BpWidthOf(bpLeft, bpRight) == Add(bpLeft, bpRight)

\* new treesaver.dimensions.Metrics(el): the own fields of the new object.
\* host[p] is what the host answers when toPixels asks it about style[p].
Metrics(e, host) ==
    LET style == getStyleObject(e)
        px(p) == toPixels(e, style[p], host[p])
        marginTop == SideOf(px("marginTop"))
        marginBottom == SideOf(px("marginBottom"))
        marginLeft == SideOf(px("marginLeft"))
        marginRight == SideOf(px("marginRight"))
        borderTop == SideOf(px("borderTopWidth"))
        borderBottom == SideOf(px("borderBottomWidth"))
        borderLeft == SideOf(px("borderLeftWidth"))
        borderRight == SideOf(px("borderRightWidth"))
        paddingTop == SideOf(px("paddingTop"))
        paddingBottom == SideOf(px("paddingBottom"))
        paddingLeft == SideOf(px("paddingLeft"))
        paddingRight == SideOf(px("paddingRight"))
        bpTop == Add(borderTop, paddingTop)
        bpBottom == Add(borderBottom, paddingBottom)
        bpHeight == Add(bpTop, bpBottom)
        bpLeft == Add(borderLeft, paddingLeft)
        bpRight == Add(borderRight, paddingRight)
        bpWidth == BpWidthOf(bpLeft, bpRight)
        outerW == Num(e.offsetWidth)
        outerH == Num(e.offsetHeight)
    IN  [display |-> style["display"],
         position |-> style["position"],
         marginTop |-> marginTop,
         marginBottom |-> marginBottom,
         marginLeft |-> marginLeft,
         marginRight |-> marginRight,
         marginHeight |-> Add(marginTop, marginBottom),
         marginWidth |-> Add(marginLeft, marginRight),
         borderTop |-> borderTop,
         borderBottom |-> borderBottom,
         borderLeft |-> borderLeft,
         borderRight |-> borderRight,
         paddingTop |-> paddingTop,
         paddingBottom |-> paddingBottom,
         paddingLeft |-> paddingLeft,
         paddingRight |-> paddingRight,
         bpTop |-> bpTop,
         bpBottom |-> bpBottom,
         bpHeight |-> bpHeight,
         bpLeft |-> bpLeft,
         bpRight |-> bpRight,
         bpWidth |-> bpWidth,
         outerW |-> outerW,
         outerH |-> outerH,
         width |-> Sub(outerW, bpWidth),
         height |-> Sub(outerH, bpHeight),
         minW |-> SideOf(px("minWidth")),
         minH |-> SideOf(px("minHeight")),
         maxW |-> MaxOf(px("maxWidth")),
         maxH |-> MaxOf(px("maxHeight")),
         lineHeight |-> Or(px("lineHeight"), Null)]

\* obj[key] on a Metrics object: an own field, else the prototype's.
Lookup(obj, key) ==
    IF key \in DOMAIN obj THEN obj[key]
    ELSE IF key \in DOMAIN Prototype THEN Prototype[key]
    ELSE Undefined

\* a !== b
StrictNotEqual(a, b) == a # b \/ a = NaN

\* this.clone(): copy starts as an empty Metrics; every enumerable key of
\* this, own or inherited, is assigned to copy unless copy already reads
\* the same value under that key.
clone(this) ==
    LET keys == DOMAIN this \cup DOMAIN Prototype
        assigned ==
            {key \in keys :
                StrictNotEqual(Lookup(EmptyMetrics, key), Lookup(this, key))}
    IN  [key \in assigned |-> Lookup(this, key)]

-----------------------------------------------------------------------------
(* The size-range functions.                                               *)

\* inSizeRange that rejects a size on its maximum.
inSizeRange_ExclusiveMaximum(range, size) ==
    IF ~Truthy(range) THEN False
    ELSE Bool(/\ Ge(Get(size, "w"), Get(range, "minW"))
              /\ Ge(Get(size, "h"), Get(range, "minH"))
              /\ (~Truthy(Get(range, "maxW"))
                     \/ ~Ge(Get(size, "w"), Get(range, "maxW")))
              /\ (~Truthy(Get(range, "maxH"))
                     \/ ~Ge(Get(size, "h"), Get(range, "maxH"))))

\* inSizeRange(range, size); size is an object.
inSizeRange(range, size) ==
    IF ~Truthy(range) THEN False
    ELSE Bool(/\ Ge(Get(size, "w"), Get(range, "minW"))
              /\ Ge(Get(size, "h"), Get(range, "minH"))
              /\ (~Truthy(Get(range, "maxW"))
                     \/ Le(Get(size, "w"), Get(range, "maxW")))
              /\ (~Truthy(Get(range, "maxH"))
                     \/ Le(Get(size, "h"), Get(range, "maxH"))))

\* The border and padding added along one axis (lines 65-68).
Footprint(b, outer, bpKey, outerKey, innerKey) ==
    IF outer
    THEN Or(Get(b, bpKey),
            IF Truthy(Get(b, outerKey))
            THEN Sub(Get(b, outerKey), Get(b, innerKey))
            ELSE Num(0))
    ELSE Num(0)

\* mergeSizeRange that keeps the larger maximum width.
mergeSizeRange_LargerMaximum(a, b, outer) ==
    LET a1 == Or(a, EmptyObject)
        b1 == Or(b, EmptyObject)
        bpHeight == Footprint(b1, outer, "bpHeight", "outerHeight", "height")
        bpWidth == Footprint(b1, outer, "bpWidth", "outerWidth", "width")
    IN  [width |-> MathMax(Or(Get(a1, "width"), Num(0)),
                           Or(Add(Get(b1, "width"), bpWidth), Num(0))),
         height |-> MathMax(Or(Get(a1, "height"), Num(0)),
                            Or(Add(Get(b1, "height"), bpHeight), Num(0))),
         maxW |-> MathMax(Or(Get(a1, "maxW"), Infinity),
                          Or(Add(Get(b1, "maxW"), bpWidth), Infinity)),
         maxH |-> MathMin(Or(Get(a1, "maxH"), Infinity),
                          Or(Add(Get(b1, "maxH"), bpHeight), Infinity))]

\* mergeSizeRange(a, b, outer)
mergeSizeRange(a, b, outer) ==
    LET a1 == Or(a, EmptyObject)
        b1 == Or(b, EmptyObject)
        bpHeight == Footprint(b1, outer, "bpHeight", "outerHeight", "height")
        bpWidth == Footprint(b1, outer, "bpWidth", "outerWidth", "width")
    IN  [width |-> MathMax(Or(Get(a1, "width"), Num(0)),
                           Or(Add(Get(b1, "width"), bpWidth), Num(0))),
         height |-> MathMax(Or(Get(a1, "height"), Num(0)),
                            Or(Add(Get(b1, "height"), bpHeight), Num(0))),
         maxW |-> MathMin(Or(Get(a1, "maxW"), Infinity),
                          Or(Add(Get(b1, "maxW"), bpWidth), Infinity)),
         maxH |-> MathMin(Or(Get(a1, "maxH"), Infinity),
                          Or(Add(Get(b1, "maxH"), bpHeight), Infinity))]

-----------------------------------------------------------------------------
(* Inputs.                                                                 *)

Chars == {"-", "0", "1", "7", "p", "x", "P", "X", ".", "e"}

StringsUpTo(n) == UNION {[1..k -> Chars] : k \in 0..n}

SampleStrings ==
    {<<"n", "o", "r", "m", "a", "l">>, <<"1", ".", "5", "e", "m">>,
     <<"a", "u", "t", "o">>, <<"1", "0", "0", "p", "x">>,
     <<"-", "1", "2", "P", "x">>, <<"2", "0", "4", "8">>,
     <<"1", "0", "p", "x", " ">>, <<" ", "1", "0", "p", "x">>}

\* The values handed to toPixels: a string, or an absent style value.
ToPixelsVals ==
    {Undefined, Null} \cup {Str(s) : s \in StringsUpTo(MaxLen) \cup SampleStrings}

\* What the host may report as el.style.pixelLeft.
PixelLeftVals == {-8, 24}

\* A field that an object does not have.
Absent == [t |-> "absent", n |-> 0, s |-> <<>>]

\* The object that has the fields of f that are not Absent.
Object(f) == [k \in {x \in DOMAIN f : f[x] # Absent} |-> f[k]]

Dims == {Num(i) : i \in 0..MaxDim}

\* A minimum, width or height of a range, and a maximum of one.
LowVals == {Absent} \cup Dims
MaxVals == {Absent, Infinity} \cup Dims

Sizes ==
    {[w |-> x, h |-> y] : x \in Dims, y \in Dims}
        \cup {[width |-> x, height |-> y] : x \in Dims, y \in Dims}

Ranges ==
    {Undefined, Null} \cup
    {Object([minW |-> a, minH |-> b, maxW |-> c, maxH |-> d]) :
        a \in LowVals, b \in LowVals, c \in MaxVals, d \in MaxVals}

\* The fields of mergeSizeRange's arguments along one axis: a's size and
\* maximum, b's size, maximum, border+padding and outer size.
AxisInputs ==
    [aSize : LowVals, aMax : MaxVals, bSize : LowVals, bMax : MaxVals,
     bBp : {Absent, Num(0), Num(1)}, bOuter : {Absent, Num(MaxDim + 1)}]

\* A few inputs for the other axis.
AxisSamples ==
    {[aSize |-> Absent, aMax |-> Absent, bSize |-> Absent, bMax |-> Absent,
      bBp |-> Absent, bOuter |-> Absent],
     [aSize |-> Num(1), aMax |-> Num(2), bSize |-> Num(2), bMax |-> Num(1),
      bBp |-> Num(1), bOuter |-> Absent],
     [aSize |-> Num(2), aMax |-> Infinity, bSize |-> Num(0), bMax |-> Num(0),
      bBp |-> Absent, bOuter |-> Num(MaxDim + 1)]}

RangeOf(x, y) ==
    Object([width |-> x.aSize, height |-> y.aSize,
            maxW |-> x.aMax, maxH |-> y.aMax])

MetricsOf(x, y) ==
    Object([width |-> x.bSize, height |-> y.bSize,
            maxW |-> x.bMax, maxH |-> y.bMax,
            bpWidth |-> x.bBp, bpHeight |-> y.bBp,
            outerWidth |-> x.bOuter, outerHeight |-> y.bOuter])

\* An element none of whose styles was written.
Element(sheet, offsetWidth, offsetHeight) ==
    [sheet |-> sheet, inline |-> EmptyObject,
     offsetWidth |-> offsetWidth, offsetHeight |-> offsetHeight]

S(chars) == Str(chars)

Sheet(margin, border, padding, min, max, lineHeight) ==
    [p \in StyleProps |->
        CASE p \in {"marginTop", "marginBottom", "marginLeft", "marginRight"}
               -> margin
          [] p \in {"borderTopWidth", "borderBottomWidth", "borderLeftWidth",
                    "borderRightWidth"} -> border
          [] p \in {"paddingTop", "paddingBottom", "paddingLeft",
                    "paddingRight"} -> padding
          [] p \in {"minWidth", "minHeight"} -> min
          [] p \in {"maxWidth", "maxHeight"} -> max
          [] p = "lineHeight" -> lineHeight
          [] p = "display" -> S(<<"b", "l", "o", "c", "k">>)
          [] p = "position" -> S(<<"s", "t", "a", "t", "i", "c">>)]

MarginStyles ==
    {S(<<"1", "0", "p", "x">>), S(<<"-", "5", "p", "x">>),
     S(<<"a", "u", "t", "o">>), S(<<"1", ".", "5", "e", "m">>)}

MaxStyles ==
    {S(<<"n", "o", "n", "e">>), S(<<"-", "1", "p", "x">>),
     S(<<"0", "p", "x">>), S(<<"2", "0", "0", "p", "x">>),
     S(<<"5", "0", "%">>), Undefined}

\* The elements the host starts from.
Elements ==
    {Element(Sheet(m, S(<<"2", "p", "x">>), S(<<"3", "p", "x">>),
                   S(<<"0", "p", "x">>), x, S(<<"2", "0", "p", "x">>)),
             100, 50) : m \in MarginStyles, x \in MaxStyles}
    \cup
    {Element(Sheet(m, S(<<"m", "e", "d", "i", "u", "m">>), S(<<"0">>),
                   S(<<"a", "u", "t", "o">>), x,
                   S(<<"n", "o", "r", "m", "a", "l">>)),
             12, 8) : m \in MarginStyles, x \in MaxStyles}

\* The element of the example: margin 10px, border 2px, padding 3px, 100x50.
PlainElement ==
    Element(Sheet(S(<<"1", "0", "p", "x">>), S(<<"2", "p", "x">>),
                  S(<<"3", "p", "x">>), S(<<"0", "p", "x">>),
                  S(<<"n", "o", "n", "e">>), S(<<"2", "0", "p", "x">>)),
            100, 50)

\* roundUp's result, a multiple of 1/Scale.
Fixed(q) == [t |-> "number/Scale", n |-> q, s |-> <<>>]

NoCall == [fn |-> "none"]

-----------------------------------------------------------------------------
(* The pixel helpers: toPixels and roundUp applied to bounded inputs.      *)

InitPixels ==
    /\ legacy \in BOOLEAN
    /\ el = PlainElement
    /\ writes = 0
    /\ metrics = Undefined
    /\ copy = Undefined
    /\ call = NoCall
    /\ ret = Undefined

ToPixels ==
    /\ call = NoCall
    /\ \E val \in ToPixelsVals :
        \E pixelLeft \in (IF AsksHost(val) THEN PixelLeftVals ELSE {0}) :
            /\ call' = [fn |-> "toPixels", val |-> val]
            /\ ret' = toPixels(el, val, pixelLeft)
            /\ UNCHANGED <<legacy, el, writes, metrics, copy>>

RoundUp ==
    /\ call = NoCall
    /\ \E q \in (-MaxNumber)..MaxNumber, base \in 1..MaxBase :
        /\ call' = [fn |-> "roundUp", number |-> q, base |-> base * Scale]
        /\ ret' = Fixed(roundUp(q, base * Scale))
        /\ UNCHANGED <<legacy, el, writes, metrics, copy>>

NextPixels == ToPixels \/ RoundUp

SpecPixels == InitPixels /\ [][NextPixels]_vars

-----------------------------------------------------------------------------
(* The size-range functions applied to bounded inputs.                     *)

InitRange ==
    /\ legacy = FALSE
    /\ el = PlainElement
    /\ writes = 0
    /\ metrics = Undefined
    /\ copy = Undefined
    /\ call = NoCall
    /\ ret = Undefined

InSizeRange ==
    /\ call = NoCall
    /\ \E range \in Ranges, size \in Sizes :
        /\ call' = [fn |-> "inSizeRange", range |-> range, size |-> size]
        /\ ret' = inSizeRange(range, size)
        /\ UNCHANGED <<legacy, el, writes, metrics, copy>>

MergeSizeRange ==
    /\ call = NoCall
    /\ \E x \in AxisInputs, y \in AxisSamples, swap \in BOOLEAN,
       aNone \in {Absent, Undefined, Null}, bNone \in {Absent, Undefined, Null},
       outer \in BOOLEAN :
        LET u == IF swap THEN y ELSE x
            v == IF swap THEN x ELSE y
            a == IF aNone = Absent THEN RangeOf(u, v) ELSE aNone
            b == IF bNone = Absent THEN MetricsOf(u, v) ELSE bNone
        IN  /\ call' = [fn |-> "mergeSizeRange", a |-> a, b |-> b,
                        outer |-> outer]
            /\ ret' = mergeSizeRange(a, b, outer)
            /\ UNCHANGED <<legacy, el, writes, metrics, copy>>

NextRange == InSizeRange \/ MergeSizeRange

SpecRange == InitRange /\ [][NextRange]_vars

-----------------------------------------------------------------------------
(* Measuring an element: setCssPx writes a style, Metrics takes a snapshot. *)

CssPxProps ==
    {"marginLeft", "borderLeftWidth", "paddingRight", "maxWidth", "minHeight"}

CssPxVals == {0, 7}

\* The answers of the host to the questions toPixels asks it while a
\* Metrics is built from e: one per property whose value makes it ask.
HostAnswers(e) ==
    LET style == getStyleObject(e)
        asking == {p \in LengthProps : AsksHost(style[p])}
    IN  {[p \in LengthProps |-> IF p \in asking THEN g[p] ELSE 0] :
            g \in [asking -> PixelLeftVals]}

InitMetrics ==
    /\ legacy \in BOOLEAN
    /\ el \in Elements
    /\ writes = 0
    /\ metrics = Undefined
    /\ copy = Undefined
    /\ call = NoCall
    /\ ret = Undefined

SetCssPx ==
    /\ writes < MaxWrites
    /\ \E propName \in CssPxProps, val \in CssPxVals :
        /\ el' = setCssPx(el, propName, val)
        /\ call' = [fn |-> "setCssPx", propName |-> propName, val |-> val]
        /\ ret' = Num(val)
    /\ writes' = writes + 1
    /\ UNCHANGED <<legacy, metrics, copy>>

\* The caller takes one snapshot and keeps it.
NewMetrics ==
    /\ metrics = Undefined
    /\ \E host \in HostAnswers(el) :
        /\ metrics' = Metrics(el, host)
        /\ call' = [fn |-> "Metrics", el |-> el]
        /\ ret' = metrics'
    /\ UNCHANGED <<legacy, el, writes, copy>>

NextMetrics == SetCssPx \/ NewMetrics

SpecMetrics == InitMetrics /\ [][NextMetrics]_vars

-----------------------------------------------------------------------------
(* Copying a Metrics: built from the element or empty, extended by the      *)
(* caller, cloned, and the clone or the source assigned to.                 *)

ExtraFields == {"extra", "width", "lineHeight"}

ExtraVals == {Num(0), Num(5), Null, Undefined, S(<<"x">>)}

InitClone ==
    /\ legacy = FALSE
    /\ el = PlainElement
    /\ writes = 0
    /\ metrics = Undefined
    /\ copy = Undefined
    /\ call = NoCall
    /\ ret = Undefined

NewEmptyMetrics ==
    /\ metrics = Undefined
    /\ metrics' = EmptyMetrics
    /\ call' = [fn |-> "Metrics", el |-> Undefined]
    /\ ret' = EmptyMetrics
    /\ UNCHANGED <<legacy, el, writes, copy>>

\* metrics[field] = val, by the caller
Extend ==
    /\ metrics # Undefined
    /\ writes < MaxAssign
    /\ \E field \in ExtraFields, val \in ExtraVals :
        /\ metrics' = Put(metrics, field, val)
        /\ call' = [fn |-> "assign", target |-> "metrics", field |-> field]
        /\ ret' = val
    /\ writes' = writes + 1
    /\ UNCHANGED <<legacy, el, copy>>

Clone ==
    /\ metrics # Undefined
    /\ copy = Undefined
    /\ copy' = clone(metrics)
    /\ call' = [fn |-> "clone", this |-> metrics]
    /\ ret' = copy'
    /\ UNCHANGED <<legacy, el, writes, metrics>>

\* copy[field] = val, by the caller
AssignCopy ==
    /\ copy # Undefined
    /\ writes < MaxAssign
    /\ \E field \in ExtraFields, val \in ExtraVals :
        /\ copy' = Put(copy, field, val)
        /\ call' = [fn |-> "assign", target |-> "copy", field |-> field]
        /\ ret' = val
    /\ writes' = writes + 1
    /\ UNCHANGED <<legacy, el, metrics>>

NextClone ==
    NewEmptyMetrics \/ NewMetrics \/ Extend \/ Clone \/ AssignCopy

SpecClone == InitClone /\ [][NextClone]_vars

-----------------------------------------------------------------------------
(* What the claims say, stated on plain integers and field membership.     *)

IsAbsent(v) == v = Undefined \/ v = Null

HasNumber(o, k) == k \in DOMAIN o /\ o[k].t = "number"

\* A maximum that is unset or zero.
NoMaximum(o, k) == k \notin DOMAIN o \/ o[k] = Num(0)

\* size[k] is within the minimum range[lo] and the maximum range[hi].
AtLeast(size, k, range, lo) ==
    HasNumber(size, k) /\ size[k].n >= range[lo].n

AtMost(size, k, range, hi) ==
    \/ NoMaximum(range, hi)
    \/ HasNumber(size, k) /\ (range[hi] = Infinity \/ size[k].n <= range[hi].n)

\* The verdict on a size whose fields are named wKey and hKey.
Fits(range, size, wKey, hKey) ==
    /\ AtLeast(size, wKey, range, "minW")
    /\ AtLeast(size, hKey, range, "minH")
    /\ AtMost(size, wKey, range, "maxW")
    /\ AtMost(size, hKey, range, "maxH")

InSizeRangeCalled == call.fn = "inSizeRange"

\* C1 as stated: inSizeRange is false for an absent range, and for a range
\* with numeric minW and minH it is true iff size.width and size.height are
\* within the inclusive bounds.
C1_Original ==
    InSizeRangeCalled =>
        IF IsAbsent(call.range) THEN ret = False
        ELSE (HasNumber(call.range, "minW") /\ HasNumber(call.range, "minH"))
                => ret = Bool(Fits(call.range, call.size, "width", "height"))

\* C1 amended: inSizeRange is false for an absent range, and for a range
\* with numeric minW and minH it is true iff size.w and size.h (the fields
\* of a Size are w and h) are within the inclusive bounds, a maximum that is
\* unset or zero not bounding.
C1_InSizeRange ==
    InSizeRangeCalled =>
        IF IsAbsent(call.range) THEN ret = False
        ELSE (HasNumber(call.range, "minW") /\ HasNumber(call.range, "minH"))
                => ret = Bool(Fits(call.range, call.size, "w", "h"))

\* A size on its maximum width and its minimum height is accepted.
C1_Witness ==
    /\ InSizeRangeCalled
    /\ ~IsAbsent(call.range)
    /\ HasNumber(call.range, "minW") /\ HasNumber(call.range, "minH")
    /\ HasNumber(call.range, "maxW") /\ call.range["maxW"].n > 0
    /\ HasNumber(call.size, "w") /\ HasNumber(call.size, "h")
    /\ call.size["w"] = call.range["maxW"]
    /\ call.size["h"] = call.range["minH"]
    /\ ret = True

\* C2 as stated: a range without minW or minH has that minimum equal to 0,
\* so for a size with non-negative w and h the verdict depends only on the
\* minimums that are present and on the maximums.
C2_MissingMinimumIsZero ==
    (/\ InSizeRangeCalled
     /\ ~IsAbsent(call.range)
     /\ ("minW" \notin DOMAIN call.range \/ "minH" \notin DOMAIN call.range)
     /\ HasNumber(call.size, "w") /\ call.size["w"].n >= 0
     /\ HasNumber(call.size, "h") /\ call.size["h"].n >= 0)
    => ret = Bool(/\ "minW" \in DOMAIN call.range
                        => AtLeast(call.size, "w", call.range, "minW")
                  /\ "minH" \in DOMAIN call.range
                        => AtLeast(call.size, "h", call.range, "minH")
                  /\ AtMost(call.size, "w", call.range, "maxW")
                  /\ AtMost(call.size, "h", call.range, "maxH"))

MergeCalled == call.fn = "mergeSizeRange"

\* The fields of an argument of mergeSizeRange, none for an absent argument.
FieldsOf(o) == IF IsAbsent(o) THEN EmptyObject ELSE o

\* A width or height, 0 when absent.
SizeOr0(o, k) == IF HasNumber(FieldsOf(o), k) THEN FieldsOf(o)[k].n ELSE 0

\* A maximum is bounded when it is a number other than zero.
Bounded(o, k) == HasNumber(FieldsOf(o), k) /\ FieldsOf(o)[k].n # 0

Larger(i, j) == IF i >= j THEN i ELSE j

\* The smaller of two maximums, each bounded (has.., a number) or +Infinity.
Tighter(hasI, i, hasJ, j) ==
    IF hasI /\ hasJ THEN Num(IF i <= j THEN i ELSE j)
    ELSE IF hasI THEN Num(i)
    ELSE IF hasJ THEN Num(j)
    ELSE Infinity

MergedInner(a, b) ==
    [width |-> Num(Larger(SizeOr0(a, "width"), SizeOr0(b, "width"))),
     height |-> Num(Larger(SizeOr0(a, "height"), SizeOr0(b, "height"))),
     maxW |-> Tighter(Bounded(a, "maxW"), FieldsOf(a)["maxW"].n,
                      Bounded(b, "maxW"), FieldsOf(b)["maxW"].n),
     maxH |-> Tighter(Bounded(a, "maxH"), FieldsOf(a)["maxH"].n,
                      Bounded(b, "maxH"), FieldsOf(b)["maxH"].n)]

\* C3: mergeSizeRange(a, b, false) has exactly the fields width, height,
\* maxW and maxH: the larger width and height (0 when absent) and the smaller
\* maximum (+Infinity when absent or zero); so (null, null) gives
\* {0, 0, Infinity, Infinity}, the size is never below a's and the maximum
\* never above a's.
C3_MergeInner ==
    (MergeCalled /\ ~call.outer) =>
        /\ ret = MergedInner(call.a, call.b)
        /\ DOMAIN ret = {"width", "height", "maxW", "maxH"}
        /\ ret["width"].n >= SizeOr0(call.a, "width")
        /\ ret["height"].n >= SizeOr0(call.a, "height")
        /\ Bounded(call.a, "maxW")
              => ret["maxW"].t = "number"
                    /\ ret["maxW"].n <= FieldsOf(call.a)["maxW"].n
        /\ Bounded(call.a, "maxH")
              => ret["maxH"].t = "number"
                    /\ ret["maxH"].n <= FieldsOf(call.a)["maxH"].n
        /\ (IsAbsent(call.a) /\ IsAbsent(call.b))
              => ret = [width |-> Num(0), height |-> Num(0),
                        maxW |-> Infinity, maxH |-> Infinity]

\* b widens a's width and tightens a's maximum width.
C3_Witness ==
    /\ MergeCalled /\ ~call.outer
    /\ ~IsAbsent(call.a) /\ ~IsAbsent(call.b)
    /\ Bounded(call.a, "maxW") /\ Bounded(call.b, "maxW")
    /\ HasNumber(call.a, "width") /\ HasNumber(call.b, "width")
    /\ call.b["width"].n > call.a["width"].n
    /\ call.b["maxW"].n < call.a["maxW"].n
    /\ ret["width"] = call.b["width"]
    /\ ret["maxW"] = call.b["maxW"]

\* The footprint of b along one axis as C4 states it: b's bp field when
\* present, otherwise outer - inner, otherwise 0.
ClaimedFootprint(b, bpKey, outerKey, innerKey) ==
    IF HasNumber(FieldsOf(b), bpKey) THEN FieldsOf(b)[bpKey].n
    ELSE IF HasNumber(FieldsOf(b), outerKey)
         THEN FieldsOf(b)[outerKey].n - SizeOr0(b, innerKey)
    ELSE 0

MergedOuter(a, b) ==
    LET fw == ClaimedFootprint(b, "bpWidth", "outerWidth", "width")
        fh == ClaimedFootprint(b, "bpHeight", "outerHeight", "height")
    IN  [width |-> Num(Larger(SizeOr0(a, "width"), SizeOr0(b, "width") + fw)),
         height |->
             Num(Larger(SizeOr0(a, "height"), SizeOr0(b, "height") + fh)),
         maxW |-> Tighter(Bounded(a, "maxW"), FieldsOf(a)["maxW"].n,
                          Bounded(b, "maxW"), FieldsOf(b)["maxW"].n + fw),
         maxH |-> Tighter(Bounded(a, "maxH"), FieldsOf(a)["maxH"].n,
                          Bounded(b, "maxH"), FieldsOf(b)["maxH"].n + fh)]

\* The footprint fields of b leave no doubt: width and height are present,
\* and a bp field that is present is not zero.
PlainFootprint(b) ==
    /\ HasNumber(FieldsOf(b), "width") /\ HasNumber(FieldsOf(b), "height")
    /\ HasNumber(FieldsOf(b), "bpWidth") => FieldsOf(b)["bpWidth"].n # 0
    /\ HasNumber(FieldsOf(b), "bpHeight") => FieldsOf(b)["bpHeight"].n # 0

\* C4 as stated: mergeSizeRange(a, b, true) adds b's footprint to b's width,
\* height and maximums before merging, and a maximum of b that is absent or
\* zero stays unbounded after the footprint is added, so it never caps the
\* result.
C4_MergeOuter ==
    (MergeCalled /\ call.outer /\ PlainFootprint(call.b))
        => ret = MergedOuter(call.a, call.b)

-----------------------------------------------------------------------------
(* toPixels and roundUp.                                                   *)

\* s without a leading minus sign, and without a trailing px in any case.
Unsigned(s) == IF s # <<>> /\ Head(s) = "-" THEN Tail(s) ELSE s

Unsuffixed(s) ==
    IF /\ Len(s) >= 2
       /\ s[Len(s) - 1] \in {"p", "P"}
       /\ s[Len(s)] \in {"x", "X"}
    THEN SubSeq(s, 1, Len(s) - 2)
    ELSE s

DigitsOf(s) == Unsuffixed(Unsigned(s))

\* s is 'N' or 'Npx': an optional '-', one or more digits, an optional px.
IsPixelLiteral(s) ==
    /\ DigitsOf(s) # <<>>
    /\ \A i \in 1..Len(DigitsOf(s)) : DigitsOf(s)[i] \in Digits

RECURSIVE Power10(_)
Power10(k) == IF k = 0 THEN 1 ELSE 10 * Power10(k - 1)

RECURSIVE PlaceSum(_, _)
PlaceSum(d, i) ==
    IF i > Len(d) THEN 0
    ELSE DigitValue(d[i]) * Power10(Len(d) - i) + PlaceSum(d, i + 1)

\* The number N of a pixel literal.
LiteralNumber(s) ==
    IF s[1] = "-" THEN -PlaceSum(DigitsOf(s), 1) ELSE PlaceSum(DigitsOf(s), 1)

\* What the standard toPixels answers for a style value.
Parsed(val) ==
    IF val.t = "string" /\ IsPixelLiteral(val.s)
    THEN Num(LiteralNumber(val.s))
    ELSE Null

-----------------------------------------------------------------------------
(* The Metrics snapshot.                                                   *)

\* A Metrics was just built from the element call.el.
Measured == call.fn = "Metrics" /\ call.el # Undefined

\* The style value the element reported for a property when it was measured.
Reported(p) == getStyleObject(call.el)[p]

IsLiteral(p) == Reported(p).t = "string" /\ IsPixelLiteral(Reported(p).s)

\* The MSIE patch hands a value that is no pixel literal but starts with a
\* number to the host.
HostConverts(p) ==
    /\ legacy
    /\ Reported(p).t = "string"
    /\ ~IsPixelLiteral(Reported(p).s)
    /\ Unsigned(Reported(p).s) # <<>>
    /\ Head(Unsigned(Reported(p).s)) \in Digits

IsNumberField(f) == f \in DOMAIN metrics /\ metrics[f].t = "number"

SumOf(f, g, h) ==
    /\ IsNumberField(f) /\ IsNumberField(g) /\ IsNumberField(h)
    /\ metrics[f].n = metrics[g].n + metrics[h].n

\* C5: the derived fields of a snapshot are the sums and differences of the
\* fields they derive from, and the outer size is the element's offset size.
C5_DerivedFields ==
    Measured =>
        /\ SumOf("marginHeight", "marginTop", "marginBottom")
        /\ SumOf("marginWidth", "marginLeft", "marginRight")
        /\ SumOf("bpTop", "borderTop", "paddingTop")
        /\ SumOf("bpBottom", "borderBottom", "paddingBottom")
        /\ SumOf("bpLeft", "borderLeft", "paddingLeft")
        /\ SumOf("bpRight", "borderRight", "paddingRight")
        /\ SumOf("bpHeight", "bpTop", "bpBottom")
        /\ SumOf("bpWidth", "bpLeft", "bpRight")
        /\ metrics["outerW"] = Num(call.el.offsetWidth)
        /\ metrics["outerH"] = Num(call.el.offsetHeight)
        /\ SumOf("outerW", "width", "bpWidth")
        /\ SumOf("outerH", "height", "bpHeight")

\* Margin 10px, border 2px and padding 3px on all sides with offset 100x50
\* give bp 10, content 90x40 and margins 20.
C5_Witness ==
    /\ Measured
    /\ call.el = PlainElement
    /\ metrics["bpWidth"] = Num(10) /\ metrics["bpHeight"] = Num(10)
    /\ metrics["width"] = Num(90) /\ metrics["height"] = Num(40)
    /\ metrics["marginWidth"] = Num(20) /\ metrics["marginHeight"] = Num(20)

\* The maximum and the minimum of a snapshot, and the style each comes from.
MaxFields == {<<"maxW", "maxWidth">>, <<"maxH", "maxHeight">>}
MinFields == {<<"minW", "minWidth">>, <<"minH", "minHeight">>}

\* C6 as stated: a maximum is +Infinity when the computed maximum is absent,
\* is no pixel literal or is -1, and its parsed value otherwise; a minimum is
\* its parsed value, or 0 when unparsable.
C6_Original ==
    Measured =>
        /\ \A fp \in MaxFields :
              metrics[fp[1]] =
                  IF ~IsLiteral(fp[2]) \/ Parsed(Reported(fp[2])) = Num(-1)
                  THEN Infinity
                  ELSE Parsed(Reported(fp[2]))
        /\ \A fp \in MinFields :
              metrics[fp[1]] =
                  IF IsLiteral(fp[2]) THEN Parsed(Reported(fp[2])) ELSE Num(0)

\* C6 amended: a maximum is +Infinity when the computed maximum is absent,
\* is no pixel literal, is zero or is -1, and its parsed value otherwise; a
\* minimum is its parsed value, or 0 when unparsable.  (With the MSIE patch a
\* value that is no pixel literal but starts with a number is the host's to
\* convert.)
C6_MinMax ==
    Measured =>
        /\ \A fp \in MaxFields :
              IF IsLiteral(fp[2])
              THEN metrics[fp[1]] =
                      IF Parsed(Reported(fp[2])) \in {Num(0), Num(-1)}
                      THEN Infinity
                      ELSE Parsed(Reported(fp[2]))
              ELSE ~HostConverts(fp[2]) => metrics[fp[1]] = Infinity
        /\ \A fp \in MinFields :
              IF IsLiteral(fp[2])
              THEN metrics[fp[1]] = Parsed(Reported(fp[2]))
              ELSE ~HostConverts(fp[2]) => metrics[fp[1]] = Num(0)

\* A max-width of 0px is unbounded, a max-height of 200px is 200.
C6_Witness ==
    /\ Measured
    /\ Reported("maxWidth") = Str(<<"0", "p", "x">>)
    /\ Reported("maxHeight") = Str(<<"2", "0", "0", "p", "x">>)
    /\ metrics["maxW"] = Infinity
    /\ metrics["maxH"] = Num(200)

\* The box-model sides of a snapshot, and the style each comes from.
SideFields ==
    {<<"marginTop", "marginTop">>, <<"marginBottom", "marginBottom">>,
     <<"marginLeft", "marginLeft">>, <<"marginRight", "marginRight">>,
     <<"borderTop", "borderTopWidth">>, <<"borderBottom", "borderBottomWidth">>,
     <<"borderLeft", "borderLeftWidth">>, <<"borderRight", "borderRightWidth">>,
     <<"paddingTop", "paddingTop">>, <<"paddingBottom", "paddingBottom">>,
     <<"paddingLeft", "paddingLeft">>, <<"paddingRight", "paddingRight">>}

\* C10 as stated: every margin, border and padding field is a number >= 0,
\* the parsed value of a pixel literal and 0 for an unparsable value.
C10_Original ==
    Measured =>
        \A fp \in SideFields :
            /\ IsNumberField(fp[1])
            /\ metrics[fp[1]].n >= 0
            /\ metrics[fp[1]] =
                  IF IsLiteral(fp[2]) THEN Parsed(Reported(fp[2])) ELSE Num(0)

\* C10 amended: every margin, border and padding field is a number, never
\* unset: the parsed value of a pixel literal, which is negative for a
\* negative literal, and 0 for an unparsable value.  (With the MSIE patch a
\* value that is no pixel literal but starts with a number is the host's to
\* convert, to a number.)
C10_Sides ==
    Measured =>
        \A fp \in SideFields :
            /\ IsNumberField(fp[1])
            /\ IsLiteral(fp[2]) => metrics[fp[1]] = Parsed(Reported(fp[2]))
            /\ (~IsLiteral(fp[2]) /\ ~HostConverts(fp[2]))
                  => metrics[fp[1]] = Num(0)

\* A margin of -5px is -5, a border of medium is 0.
C10_Witness ==
    /\ Measured
    /\ Reported("marginTop") = Str(<<"-", "5", "p", "x">>)
    /\ Reported("borderTopWidth") = Str(<<"m", "e", "d", "i", "u", "m">>)
    /\ metrics["marginTop"] = Num(-5)
    /\ metrics["borderTop"] = Num(0)

\* C7 as stated: the clone has every own field of the source with an equal
\* value, and no other own field.
C7_CloneHasEveryOwnField ==
    call.fn = "clone" =>
        /\ DOMAIN ret = DOMAIN call.this
        /\ \A key \in DOMAIN call.this : ret[key] = call.this[key]

====
